---------------------------- MODULE Spec2Model ----------------------------
(***************************************************************************)
(* Vacation-day planner (Syalem/holiday_planner).                          *)
(*                                                                         *)
(* The planner (gui/holiday_planner.py) owns the selection holidays1, the  *)
(* counter taken_holidays1, the carryover previous_year_var, the selected  *)
(* year and region.  The calendar widget (gui/calendar_widget.py) renders  *)
(* one year and gives a click handler to working days only.  The storage   *)
(* manager (utils/storage.py) writes and reads the user state file, and    *)
(* the holiday loader (utils/holiday_loader.py) answers from the holiday   *)
(* configuration.                                                          *)
(*                                                                         *)
(* Dates are datetime values [year, month, day, hour]; a date string is a  *)
(* sequence of one-character strings, so that strftime and strptime are    *)
(* computed character by character.                                        *)
(***************************************************************************)
EXTENDS Integers, Sequences, FiniteSets, TLC

VARIABLES
    holidays1,          \* self.holidays1: set of datetime
    holidays2,          \* self.holidays2: set of datetime (next-year slot)
    taken_holidays1,    \* self.taken_holidays1
    taken_holidays2,    \* self.taken_holidays2
    previous_year_var,  \* self.previous_year_var (carryover entry)
    year_var,           \* self.year_var, as an integer
    region_var,         \* self.region_var
    initial_region,     \* self.initial_region
    year_values,        \* self.year_dropdown['values'], as integers
    calendar1,          \* self.calendar1: the rendered CalendarWidget
    storage_file,       \* content of data/holidays_status.json
    running,            \* FALSE once root.destroy() has run
    last_event,         \* what the last handler did (observation only)
    call_args,          \* arguments of a direct StorageManager call
    call_result,        \* value returned by a direct StorageManager call
    libc_pads_year      \* whether the platform's strftime writes %Y on four digits

vars == <<holidays1, holidays2, taken_holidays1, taken_holidays2,
          previous_year_var, year_var, region_var, initial_region,
          year_values, calendar1, storage_file, running, last_event,
          call_args, call_result, libc_pads_year>>

planner_vars == <<holidays1, holidays2, taken_holidays1, taken_holidays2,
                  previous_year_var, year_var, region_var, initial_region,
                  year_values, calendar1, running, last_event>>

---------------------------------------------------------------------------
(* Program constants and bounds                                            *)

\* total_holidays of the planner (constructor parameter), kept small so
\* that the allowance is exhausted within the rendered days.
total_holidays == 1

DEFAULT_REGION == "berlin"

CURRENT_YEAR == 2025

\* The value None of the code.
None == "None"

\* Carryover values the user types into the entry.
Carryovers == {0, 1}

\* The months and days of each year that are rendered and clicked.
MonthsShown == {1}
DaysShown == {1, 2}

---------------------------------------------------------------------------
(* datetime                                                                *)

IsLeap(y) == (y % 4 = 0) /\ ((y % 100 # 0) \/ (y % 400 = 0))

DaysInMonth(y, m) ==
    IF m = 2 THEN (IF IsLeap(y) THEN 29 ELSE 28)
    ELSE IF m \in {4, 6, 9, 11} THEN 30 ELSE 31

RECURSIVE DaysBeforeMonth(_, _)
DaysBeforeMonth(y, m) ==
    IF m = 1 THEN 0 ELSE DaysBeforeMonth(y, m - 1) + DaysInMonth(y, m - 1)

DaysBeforeYear(y) ==
    (y - 1) * 365 + ((y - 1) \div 4) - ((y - 1) \div 100) + ((y - 1) \div 400)

\* datetime(y, m, d): midnight of that day.
datetime(y, m, d) == [year |-> y, month |-> m, day |-> d, hour |-> 0]

toordinal(dt) == DaysBeforeYear(dt.year) + DaysBeforeMonth(dt.year, dt.month) + dt.day

\* date.weekday(): 0 = Monday ... 6 = Sunday.
weekday(dt) == (toordinal(dt) + 6) % 7

\* The calendar date of a datetime, ignoring the time of day.
DateOf(dt) == [year |-> dt.year, month |-> dt.month, day |-> dt.day]

---------------------------------------------------------------------------
(* Strings: str(int), int(str), strftime("%Y-%m-%d"), strptime             *)

Digits == <<"0", "1", "2", "3", "4", "5", "6", "7", "8", "9">>

IsDigit(c) == \E i \in 1..10 : Digits[i] = c

DigitVal(c) == (CHOOSE i \in 1..10 : Digits[i] = c) - 1

\* Zero-padded decimal of n on w characters (%m, %d; %Y with w = 4).
RECURSIVE Pad(_, _)
Pad(n, w) == IF w = 0 THEN <<>> ELSE Pad(n \div 10, w - 1) \o <<Digits[(n % 10) + 1]>>

\* str(n) for n >= 0: decimal without padding.
RECURSIVE str(_)
str(n) == IF n < 10 THEN <<Digits[n + 1]>> ELSE str(n \div 10) \o <<Digits[(n % 10) + 1]>>

\* int(s) of a decimal string (the configuration's year keys).
RECURSIVE int(_)
int(s) == IF Len(s) = 0 THEN 0
          ELSE 10 * int(SubSeq(s, 1, Len(s) - 1)) + DigitVal(s[Len(s)])

\* %Y of strftime.  CPython hands the format to the platform's strftime: a
\* year below 1000 is written on four digits where the C library pads it
\* and without leading zeros where it does not (glibc).
Year(y) == IF libc_pads_year \/ y >= 1000 THEN Pad(y, 4) ELSE str(y)

\* d.strftime("%Y-%m-%d"): the time of day is not written.
strftime(dt) == Year(dt.year) \o <<"-">> \o Pad(dt.month, 2) \o <<"-">> \o Pad(dt.day, 2)

\* What strptime gives for a string that does not match, or is no valid date.
ValueError == [error |-> "ValueError"]

\* datetime.strptime(s, "%Y-%m-%d").  %Y is four digits; %m is 1[0-2], 0[1-9]
\* or [1-9]; %d is 3[01], [12][0-9], 0[1-9], [1-9] or a space and [1-9]; the
\* whole string must be consumed and the day must exist in the month.
strptime(s) ==
    LET n == Len(s)
        at(i) == IF i <= n THEN s[i] ELSE "$"
        yearOk == /\ \A i \in 1..4 : IsDigit(at(i))
                  /\ at(5) = "-"
        y == 1000 * DigitVal(s[1]) + 100 * DigitVal(s[2]) + 10 * DigitVal(s[3]) + DigitVal(s[4])
        m2 == \/ at(6) = "1" /\ at(7) \in {"0", "1", "2"}
              \/ at(6) = "0" /\ IsDigit(at(7)) /\ at(7) # "0"
        m1 == IsDigit(at(6)) /\ at(6) # "0"
        mlen == IF m2 THEN 2 ELSE IF m1 THEN 1 ELSE 0
        m == IF mlen = 2 THEN 10 * DigitVal(s[6]) + DigitVal(s[7]) ELSE DigitVal(s[6])
        p == 6 + mlen                \* position of the second "-"
        d2 == \/ at(p + 1) = "3" /\ at(p + 2) \in {"0", "1"}
              \/ at(p + 1) \in {"1", "2"} /\ IsDigit(at(p + 2))
              \/ at(p + 1) = "0" /\ IsDigit(at(p + 2)) /\ at(p + 2) # "0"
        d1 == IsDigit(at(p + 1)) /\ at(p + 1) # "0"
        ds == at(p + 1) = " " /\ IsDigit(at(p + 2)) /\ at(p + 2) # "0"
        dlen == IF d2 \/ (~d1 /\ ds) THEN 2 ELSE IF d1 THEN 1 ELSE 0
        d == IF d2 THEN 10 * DigitVal(s[p + 1]) + DigitVal(s[p + 2])
             ELSE IF d1 THEN DigitVal(s[p + 1])
             ELSE DigitVal(s[p + 2])
    IN  IF /\ yearOk
           /\ mlen > 0
           /\ at(p) = "-"
           /\ dlen > 0
           /\ n = p + dlen
           /\ y >= 1
           /\ d <= DaysInMonth(y, m)
        THEN datetime(y, m, d)
        ELSE ValueError

---------------------------------------------------------------------------
(* utils/holiday_loader.py                                                 *)

\* The date string of a well-formed configuration or storage entry.
DateStr(y, m, d) == Pad(y, 4) \o <<"-">> \o Pad(m, 2) \o <<"-">> \o Pad(d, 2)

\* self.holidays_data: the parsed config/holidays.json.  A JSON object is a
\* sequence of <<key, value>> pairs, in the order of the file.  "hamburg" is
\* a region without years, as the maintenance script's add_region leaves it.
holidays_data ==
    [berlin |->
        << <<str(2026), << [date |-> DateStr(2026, 1, 1), name |-> "Neujahr"],
                           [date |-> DateStr(2026, 12, 25), name |-> "Weihnachten"] >> >>,
           <<str(2025), << [date |-> DateStr(2025, 1, 1), name |-> "Neujahr"],
                           [date |-> DateStr(2025, 12, 25), name |-> "Weihnachten"] >> >> >>,
     bayern |->
        << <<str(2027), << [date |-> DateStr(2027, 1, 1), name |-> "Neujahr"],
                           [date |-> DateStr(2027, 1, 6), name |-> "Heilige Drei Koenige"] >> >>,
           <<str(2026), << [date |-> DateStr(2026, 1, 1), name |-> "Neujahr"],
                           [date |-> DateStr(2026, 1, 6), name |-> "Heilige Drei Koenige"],
                           [name |-> "ohne Datum"],
                           [date |-> <<"6", ".", "1", ".">>, name |-> "falsches Format"] >> >> >>,
     hamburg |-> << >>]

\* key in obj, and obj[key], for a JSON object.
HasKey(obj, k) == \E i \in 1..Len(obj) : obj[i][1] = k

Value(obj, k) == obj[CHOOSE i \in 1..Len(obj) : obj[i][1] = k][2]

\* An entry of a year's list that is no JSON object (a string, a number,
\* null or a list); a JSON object is a record of its keys.
NotARecord == [json_type |-> "string"]

IsRecord(entry) == "json_type" \notin DOMAIN entry

\* What holiday["date"] gives for an entry that is no JSON object; the
\* except clause names KeyError and ValueError only, so it leaves the loop.
TypeError == "TypeError"

\* A call that returns value, and a call that raises exception.
Returns(value) == [raised |-> "nothing", value |-> value]

Raises(exception) == [raised |-> exception, value |-> {}]

\* HolidayLoader.get_holidays_for_year(year, region) with data as
\* self.holidays_data: the set returned, or the exception raised.
get_holidays_for_year_in(data, year, region) ==
    IF region \notin DOMAIN data THEN Returns({})
    ELSE IF ~HasKey(data[region], str(year)) THEN Returns({})
    ELSE LET entries == Value(data[region], str(year))
         IN  IF \E j \in 1..Len(entries) : ~IsRecord(entries[j])
             THEN Raises(TypeError)
             ELSE Returns({ strptime(entries[i].date) :
                              i \in { j \in 1..Len(entries) :
                                        /\ "date" \in DOMAIN entries[j]      \* KeyError
                                        /\ strptime(entries[j].date) # ValueError } })

\* HolidayLoader.get_holidays_for_year(year, region) of the planner's loader,
\* whose configuration holds records only.
get_holidays_for_year(year, region) ==
    get_holidays_for_year_in(holidays_data, year, region).value

\* HolidayLoader.get_available_regions(): list(self.holidays_data.keys())
get_available_regions == <<"berlin", "bayern", "hamburg">>

\* Every year some region of the configuration has, and the current year.
Years ==
    {CURRENT_YEAR} \cup
    UNION { { int(holidays_data[r][i][1]) : i \in 1..Len(holidays_data[r]) } :
            r \in DOMAIN holidays_data }

\* HolidayLoader.get_available_years(region): unsorted, in file order
get_available_years(region) ==
    IF region \notin DOMAIN holidays_data THEN << >>
    ELSE [i \in 1..Len(holidays_data[region]) |-> int(holidays_data[region][i][1])]

\* The elements of a list.
Range(seq) == { seq[i] : i \in 1..Len(seq) }

\* sorted(list) of integers
RECURSIVE sorted(_)
sorted(seq) ==
    IF Len(seq) = 0 THEN << >>
    ELSE LET least == CHOOSE i \in 1..Len(seq) : \A j \in 1..Len(seq) : seq[i] <= seq[j]
             rest == [k \in 1..(Len(seq) - 1) |-> IF k < least THEN seq[k] ELSE seq[k + 1]]
         IN  <<seq[least]>> \o sorted(rest)

---------------------------------------------------------------------------
(* utils/storage.py                                                        *)

\* Contents of the storage file: no file, text that is no JSON, or a JSON
\* object (a record of the keys it holds).  A JSON array of date strings is
\* kept as the set of its strings: load_holidays reads it only through
\* set(...).
Absent == [kind |-> "absent"]
Garbage == [kind |-> "garbage"]
JsonObject(data) == [kind |-> "json", data |-> data]

\* The tuple (set(), set(), 0, None) of load_holidays.
LoadDefaults == [holidays1 |-> {}, holidays2 |-> {}, previous_year |-> 0, region |-> None]

\* data.get(key, default)
Get(data, key, default) == IF key \in DOMAIN data THEN data[key] ELSE default

\* StorageManager.load_holidays()
load_holidays_SkipsBadDates(file) ==
    IF file.kind = "absent" THEN LoadDefaults
    ELSE IF file.kind # "json" THEN LoadDefaults
    ELSE LET data == file.data
             h1 == { strptime(d) : d \in Get(data, "holidays1", {}) } \ {ValueError}
             h2 == { strptime(d) : d \in Get(data, "holidays2", {}) } \ {ValueError}
         IN  [holidays1 |-> h1,
              holidays2 |-> h2,
              previous_year |-> Get(data, "previous_year", 0),
              region |-> Get(data, "region", None)]

load_holidays(file) ==
    IF file.kind = "absent" THEN LoadDefaults
    ELSE IF file.kind # "json" THEN LoadDefaults       \* json.load raises
    ELSE LET data == file.data
             h1 == { strptime(d) : d \in Get(data, "holidays1", {}) }
             h2 == { strptime(d) : d \in Get(data, "holidays2", {}) }
         IN  IF ValueError \in h1 \cup h2 THEN LoadDefaults   \* strptime raises
             ELSE [holidays1 |-> h1,
                   holidays2 |-> h2,
                   previous_year |-> Get(data, "previous_year", 0),
                   region |-> Get(data, "region", None)]

\* How the write of save_holidays can end: the file is written; open() fails
\* and the file is as before; or the write fails after open() has truncated
\* the file.
WriteOutcomes == {"ok", "open_fails", "dump_fails"}

\* d.strftime("%Y-%m-%d") for each d of a set.
FormatAll(dates) == { strftime(d) : d \in dates }

\* The data dictionary save_holidays serializes.  The timestamp is the time
\* of the write, which is not followed.
SavedData_NoCarryover(h1, h2, previous_year, region) ==
    [holidays1 |-> FormatAll(h1),
     holidays2 |-> FormatAll(h2),
     region |-> region,
     last_updated |-> "now"]

SavedData(h1, h2, previous_year, region) ==
    [holidays1 |-> FormatAll(h1),
     holidays2 |-> FormatAll(h2),
     previous_year |-> previous_year,
     region |-> region,
     last_updated |-> "now"]

\* StorageManager.save_holidays(holidays1, holidays2, previous_year, region):
\* the file afterwards and the value returned.
save_holidays(file, h1, h2, previous_year, region, outcome) ==
    IF outcome = "ok"
    THEN [file |-> JsonObject(SavedData(h1, h2, previous_year, region)), ret |-> TRUE]
    ELSE IF outcome = "open_fails"
    THEN [file |-> file, ret |-> FALSE]
    ELSE [file |-> Garbage, ret |-> FALSE]

---------------------------------------------------------------------------
(* gui/calendar_widget.py                                                  *)

\* days_in_month of _create_month
days_in_month(year, month) ==
    IF month = 12 THEN 31 ELSE DaysInMonth(year, month)

\* The dates _create_month goes through, within the months and days shown.
RenderedDates(year) ==
    UNION { { datetime(year, m, d) : d \in { x \in DaysShown : x <= days_in_month(year, m) } } :
            m \in MonthsShown }

is_weekend(date) == weekday(date) \in {5, 6}

\* Whether _create_month gives the date a disabled button.
IsDisabled_WeekendOnly(date, public_holidays) == is_weekend(date)

IsDisabled_HolidayOnly(date, public_holidays) == date \in public_holidays

IsDisabled(date, public_holidays) ==
    is_weekend(date) \/ date \in public_holidays

\* CalendarWidget(frame, year, holidays_set, public_holidays, ...) followed by
\* create_calendar(): disabled holds the dates with a disabled button,
\* day_buttons the dates whose button calls _on_day_click.
CalendarWidget(year, public_holidays) ==
    [year |-> year,
     public_holidays |-> public_holidays,
     disabled |-> { d \in RenderedDates(year) : IsDisabled(d, public_holidays) },
     day_buttons |-> { d \in RenderedDates(year) : ~IsDisabled(d, public_holidays) }]

---------------------------------------------------------------------------
(* gui/holiday_planner.py                                                  *)

\* The storage files the planner may find at startup: none; text that is no
\* JSON; a saved state; a state that lists a Saturday and fills the next-year
\* slot; a state with one date string that does not parse.
InitialFiles ==
    { Absent,
      Garbage,
      JsonObject([holidays1 |-> {DateStr(2025, 1, 2)},
                  holidays2 |-> {},
                  previous_year |-> 1,
                  region |-> "bayern",
                  last_updated |-> "then"]),
      JsonObject([holidays1 |-> {DateStr(2027, 1, 2)},
                  holidays2 |-> {DateStr(2026, 1, 2)},
                  previous_year |-> 0,
                  region |-> "berlin",
                  last_updated |-> "then"]),
      JsonObject([holidays1 |-> {DateStr(2025, 1, 2), <<"2", "0", "2", "5">>},
                  holidays2 |-> {},
                  previous_year |-> 1,
                  region |-> "bayern",
                  last_updated |-> "then"]) }

\* The values of the region dropdown, fixed by create_widgets.
regions ==
    IF Len(get_available_regions) = 0 THEN <<DEFAULT_REGION>> ELSE get_available_regions

\* The regions region_var can hold: the dropdown's, the default and a saved one.
RegionUniverse ==
    (Range(regions) \cup {DEFAULT_REGION}
        \cup { load_holidays(f).region : f \in InitialFiles }) \ {None}

\* years of create_widgets and on_region_change
YearList(region) ==
    LET years == sorted(get_available_years(region))
    IN  IF Len(years) = 0 THEN <<CURRENT_YEAR>> ELSE years

\* YearList, computed once for every region.
YearListOf == [r \in RegionUniverse |-> YearList(r)]

\* create_calendar_for_frame(frame, year): the new self.calendar1
create_calendar_for_frame(year, region) ==
    CalendarWidget(year, get_holidays_for_year(year, region))

\* get_holidays_for_year, computed once for every year and region.
PublicHolidaysOf == [y \in Years, r \in RegionUniverse |-> get_holidays_for_year(y, r)]

\* create_calendar_for_frame, computed once for every year and region.
CalendarOf == [y \in Years, r \in RegionUniverse |-> create_calendar_for_frame(y, r)]

\* if saved_region: (None and the empty string are false)
Truthy(region) == region # None /\ region # ""

\* region_var and initial_region after load_holidays of the planner.
StartRegion_NoDefault(saved_region) == saved_region

StartRegion(saved_region) ==
    IF Truthy(saved_region) THEN saved_region ELSE DEFAULT_REGION

\* The values that stand for "no direct StorageManager call".
NoCall == [op |-> "none"]

\* HolidayPlanner.__init__: load_holidays, then create_widgets.
Init ==
    /\ storage_file \in InitialFiles
    /\ LET loaded == load_holidays(storage_file)
           region == StartRegion(loaded.region)
       IN  /\ holidays1 = loaded.holidays1
           /\ holidays2 = loaded.holidays2
           /\ taken_holidays1 = Cardinality(loaded.holidays1)
           /\ taken_holidays2 = Cardinality(loaded.holidays2)
           /\ previous_year_var = loaded.previous_year
           /\ region_var = region
           /\ initial_region = region
           /\ year_var = CURRENT_YEAR
           /\ year_values = YearList(region)
           /\ calendar1 = create_calendar_for_frame(CURRENT_YEAR, region)
    /\ running = TRUE
    /\ last_event = "start"
    /\ call_args = NoCall
    /\ call_result = NoCall
    /\ libc_pads_year \in BOOLEAN

\* The body of toggle_holiday(date, button): the selection, the counter and
\* what happened, for a click on date with the carryover at limit - total.
toggle_effect_NoDecrement(date, selection, taken, current_year, limit) ==
    IF date.year = current_year
    THEN IF date \in selection
         THEN [holidays1 |-> selection \ {date}, taken |-> taken, outcome |-> "removed"]
         ELSE IF taken >= limit
              THEN [holidays1 |-> selection, taken |-> taken, outcome |-> "rejected"]
              ELSE [holidays1 |-> selection \cup {date}, taken |-> taken + 1, outcome |-> "added"]
    ELSE [holidays1 |-> selection, taken |-> taken, outcome |-> "other_year"]

toggle_effect_OffByOne(date, selection, taken, current_year, limit) ==
    IF date.year = current_year
    THEN IF date \in selection
         THEN [holidays1 |-> selection \ {date}, taken |-> taken - 1, outcome |-> "removed"]
         ELSE IF taken > limit
              THEN [holidays1 |-> selection, taken |-> taken, outcome |-> "rejected"]
              ELSE [holidays1 |-> selection \cup {date}, taken |-> taken + 1, outcome |-> "added"]
    ELSE [holidays1 |-> selection, taken |-> taken, outcome |-> "other_year"]

toggle_effect_NoCheck(date, selection, taken, current_year, limit) ==
    IF date.year = current_year
    THEN IF date \in selection
         THEN [holidays1 |-> selection \ {date}, taken |-> taken - 1, outcome |-> "removed"]
         ELSE [holidays1 |-> selection \cup {date}, taken |-> taken + 1, outcome |-> "added"]
    ELSE [holidays1 |-> selection, taken |-> taken, outcome |-> "other_year"]

toggle_effect_CheckedRemove(date, selection, taken, current_year, limit) ==
    IF date.year = current_year
    THEN IF taken > limit
         THEN [holidays1 |-> selection, taken |-> taken, outcome |-> "rejected"]
         ELSE IF date \in selection
              THEN [holidays1 |-> selection \ {date}, taken |-> taken - 1, outcome |-> "removed"]
              ELSE IF taken >= limit
                   THEN [holidays1 |-> selection, taken |-> taken, outcome |-> "rejected"]
                   ELSE [holidays1 |-> selection \cup {date}, taken |-> taken + 1,
                         outcome |-> "added"]
    ELSE [holidays1 |-> selection, taken |-> taken, outcome |-> "other_year"]

toggle_effect(date, selection, taken, current_year, limit) ==
    IF date.year = current_year
    THEN IF date \in selection
         THEN [holidays1 |-> selection \ {date}, taken |-> taken - 1, outcome |-> "removed"]
         ELSE IF taken >= limit                                   \* showwarning, return
              THEN [holidays1 |-> selection, taken |-> taken, outcome |-> "rejected"]
              ELSE [holidays1 |-> selection \cup {date}, taken |-> taken + 1, outcome |-> "added"]
    ELSE [holidays1 |-> selection, taken |-> taken, outcome |-> "other_year"]

\* max_days of toggle_holiday
max_days == total_holidays + previous_year_var

\* HolidayPlanner.toggle_holiday(date, button), called by _on_day_click of a
\* button of the rendered calendar.
toggle_holiday(date) ==
    /\ running
    /\ date \in calendar1.day_buttons
    /\ LET effect == toggle_effect(date, holidays1, taken_holidays1, year_var, max_days)
       IN  /\ holidays1' = effect.holidays1
           /\ taken_holidays1' = effect.taken
           /\ last_event' = effect.outcome
    /\ UNCHANGED <<holidays2, taken_holidays2, previous_year_var, year_var, region_var,
                   initial_region, year_values, calendar1, storage_file, running,
                   call_args, call_result, libc_pads_year>>

\* A click on a disabled button: it has no command and nothing is called.
ClickDisabled(date) ==
    /\ running
    /\ date \in calendar1.disabled
    /\ UNCHANGED vars

\* The user types a carryover into the entry bound to previous_year_var and
\* presses OK (update_labels).
EditCarryover(c) ==
    /\ running
    /\ c # previous_year_var
    /\ previous_year_var' = c
    /\ last_event' = "carryover"
    /\ UNCHANGED <<holidays1, holidays2, taken_holidays1, taken_holidays2,
                   year_var, region_var, initial_region, year_values, calendar1,
                   storage_file, running, call_args, call_result, libc_pads_year>>

\* HolidayPlanner.on_year_change: the year dropdown has set year_var.
on_year_change(year) ==
    /\ running
    /\ year \in Range(year_values)
    /\ year_var' = year
    /\ calendar1' = CalendarOf[year, region_var]                    \* rebuild_tabs
    /\ last_event' = "year"
    /\ UNCHANGED <<holidays1, holidays2, taken_holidays1, taken_holidays2,
                   previous_year_var, region_var, initial_region, year_values,
                   storage_file, running, call_args, call_result, libc_pads_year>>

\* HolidayPlanner.save_holidays: the file after the silent save of the
\* planner's state with region in region_var.
SavedFile_CommittedRegion(region, outcome) ==
    save_holidays(storage_file, holidays1, holidays2, previous_year_var, initial_region,
                  outcome).file

SavedFile(region, outcome) ==
    save_holidays(storage_file, holidays1, holidays2, previous_year_var, region, outcome).file

\* The answers to askyesnocancel in on_region_change, or "not_asked" when
\* nothing is selected and the dialog is not shown.
Responses ==
    IF holidays1 # {} \/ holidays2 # {} THEN {"cancel", "yes", "no"} ELSE {"not_asked"}

\* The year on_region_change leaves selected.
YearAfterRegionChange_Last(year, years) ==
    IF year \notin Range(years) THEN years[Len(years)] ELSE year

YearAfterRegionChange(year, years) ==
    IF year \notin Range(years) THEN years[1] ELSE year

\* region_var after Cancel: self.region_var.set(self.initial_region)
RegionAfterCancel_Stays(new_region, committed) == new_region

RegionAfterCancel_Default(new_region, committed) == DEFAULT_REGION

RegionAfterCancel(new_region, committed) == committed

\* HolidayPlanner.on_region_change: the region dropdown has set region_var to
\* new_region; response is the answer to askyesnocancel when it is asked.
on_region_change_NoDiscards(new_region, response, outcome) ==
    /\ running
    /\ new_region \in Range(regions)
    /\ response \in Responses
    /\ IF response = "cancel"
       THEN /\ region_var' = RegionAfterCancel(new_region, initial_region)
            /\ last_event' = "region_cancel"
            /\ UNCHANGED <<initial_region, year_values, year_var, calendar1, storage_file>>
       ELSE /\ storage_file' = IF response = "yes"
                               THEN SavedFile(new_region, outcome)
                               ELSE storage_file
            /\ region_var' = new_region
            /\ initial_region' = new_region
            /\ year_values' = YearListOf[new_region]
            /\ year_var' = YearAfterRegionChange(year_var, YearListOf[new_region])
            /\ calendar1' = CalendarOf[year_var', new_region]
            /\ last_event' = IF response = "yes" THEN "region_yes"
                             ELSE IF response = "no" THEN "region_no"
                             ELSE "region"
    /\ IF response = "no"
       THEN holidays1' = {} /\ taken_holidays1' = 0
       ELSE UNCHANGED <<holidays1, taken_holidays1>>
    /\ UNCHANGED <<holidays2, taken_holidays2, previous_year_var, running, call_args,
                   call_result, libc_pads_year>>

on_region_change(new_region, response, outcome) ==
    /\ running
    /\ new_region \in Range(regions)
    /\ response \in Responses
    /\ IF response = "cancel"
       THEN /\ region_var' = RegionAfterCancel(new_region, initial_region)
            /\ last_event' = "region_cancel"
            /\ UNCHANGED <<initial_region, year_values, year_var, calendar1, storage_file>>
       ELSE /\ storage_file' = IF response = "yes"
                               THEN SavedFile(new_region, outcome)
                               ELSE storage_file
            /\ region_var' = new_region
            /\ initial_region' = new_region
            /\ year_values' = YearListOf[new_region]
            /\ year_var' = YearAfterRegionChange(year_var, YearListOf[new_region])
            /\ calendar1' = CalendarOf[year_var', new_region]         \* rebuild_tabs
            /\ last_event' = IF response = "yes" THEN "region_yes"
                             ELSE IF response = "no" THEN "region_no"
                             ELSE "region"
    /\ UNCHANGED <<holidays1, holidays2, taken_holidays1, taken_holidays2,
                   previous_year_var, running, call_args, call_result,
                   libc_pads_year>>

\* What self.holidays1.clear() leaves of the selection.
clear(selection) == {}

\* HolidayPlanner.reset_holidays(1); confirmed is the answer to askyesno.
\* A declined reset returns at once and leaves every variable as it is.
reset_holidays(confirmed) ==
    /\ running
    /\ IF confirmed
       THEN /\ holidays1' = clear(holidays1)
            /\ taken_holidays1' = 0
            /\ calendar1' = CalendarOf[year_var, region_var]
            /\ last_event' = "reset"
       ELSE UNCHANGED <<holidays1, taken_holidays1, calendar1, last_event>>
    /\ UNCHANGED <<holidays2, taken_holidays2, previous_year_var, year_var, region_var,
                   initial_region, year_values, storage_file, running, call_args,
                   call_result, libc_pads_year>>

\* The "Save Holidays" button: HolidayPlanner.save_holidays.
save_button(outcome) ==
    /\ running
    /\ storage_file' = SavedFile(region_var, outcome)
    /\ last_event' = "save"
    /\ UNCHANGED <<holidays1, holidays2, taken_holidays1, taken_holidays2,
                   previous_year_var, year_var, region_var, initial_region,
                   year_values, calendar1, running, call_args, call_result, libc_pads_year>>

\* HolidayPlanner.on_close: save_holidays, then root.destroy().
on_close_StopsOnFailure(outcome) ==
    /\ running
    /\ storage_file' = SavedFile(region_var, outcome)
    /\ running' = (outcome # "ok")
    /\ last_event' = "close"
    /\ UNCHANGED <<holidays1, holidays2, taken_holidays1, taken_holidays2,
                   previous_year_var, year_var, region_var, initial_region,
                   year_values, calendar1, call_args, call_result, libc_pads_year>>

on_close(outcome) ==
    /\ running
    /\ storage_file' = SavedFile(region_var, outcome)
    /\ running' = FALSE
    /\ last_event' = "close"
    /\ UNCHANGED <<holidays1, holidays2, taken_holidays1, taken_holidays2,
                   previous_year_var, year_var, region_var, initial_region,
                   year_values, calendar1, call_args, call_result, libc_pads_year>>

\* Every date some calendar shows.
AllRenderedDates == UNION { RenderedDates(y) : y \in Years }

Next ==
    \/ \E date \in AllRenderedDates : toggle_holiday(date)
    \/ \E date \in AllRenderedDates : ClickDisabled(date)
    \/ \E c \in Carryovers : EditCarryover(c)
    \/ \E year \in Years : on_year_change(year)
    \/ \E r \in Range(regions), response \in {"cancel", "yes", "no", "not_asked"} :
          \E outcome \in (IF response = "yes" THEN WriteOutcomes ELSE {"ok"}) :
              on_region_change(r, response, outcome)
    \/ \E confirmed \in BOOLEAN : reset_holidays(confirmed)
    \/ \E outcome \in WriteOutcomes : save_button(outcome)
    \/ \E outcome \in WriteOutcomes : on_close(outcome)

Spec == Init /\ [][Next]_vars

---------------------------------------------------------------------------
(* Direct calls of the StorageManager: save_holidays, then load_holidays   *)

\* The datetimes, carryovers and regions given to save_holidays.
StorageDates ==
    { datetime(2025, 1, 2),
      [year |-> 2025, month |-> 1, day |-> 2, hour |-> 12],
      datetime(2024, 2, 29),
      datetime(2026, 12, 31),
      datetime(999, 1, 2) }

StorageCarryovers == {-1, 0, 5}

StorageRegions == {"berlin", ""}

InitStorage ==
    /\ storage_file \in {Absent, Garbage}
    /\ call_args \in [holidays1 : SUBSET StorageDates,
                      holidays2 : SUBSET StorageDates,
                      previous_year : StorageCarryovers,
                      region : StorageRegions]
    /\ call_result = NoCall
    /\ libc_pads_year \in BOOLEAN
    /\ holidays1 = {}
    /\ holidays2 = {}
    /\ taken_holidays1 = 0
    /\ taken_holidays2 = 0
    /\ previous_year_var = 0
    /\ year_var = CURRENT_YEAR
    /\ region_var = DEFAULT_REGION
    /\ initial_region = DEFAULT_REGION
    /\ year_values = <<CURRENT_YEAR>>
    /\ calendar1 = CalendarWidget(CURRENT_YEAR, {})
    /\ running = FALSE
    /\ last_event = "none"

\* storage_manager.save_holidays(holidays1, holidays2, previous_year, region)
StorageSave(outcome) ==
    /\ call_result.op = "none"
    /\ LET saved == save_holidays(storage_file, call_args.holidays1, call_args.holidays2,
                                  call_args.previous_year, call_args.region, outcome)
       IN  /\ storage_file' = saved.file
           /\ call_result' = [op |-> "save", ret |-> saved.ret]
    /\ UNCHANGED <<planner_vars, call_args, libc_pads_year>>

\* storage_manager.load_holidays() after the save
StorageLoad ==
    /\ call_result.op = "save"
    /\ call_result' = [op |-> "load", saved |-> call_result.ret,
                       value |-> load_holidays(storage_file)]
    /\ UNCHANGED <<planner_vars, call_args, storage_file, libc_pads_year>>

NextStorage ==
    \/ \E outcome \in WriteOutcomes : StorageSave(outcome)
    \/ StorageLoad

SpecStorage == InitStorage /\ [][NextStorage]_vars

---------------------------------------------------------------------------
(* Direct calls of the StorageManager: load_holidays of a given file       *)

\* Date strings a storage file may list: two that strptime reads (the second
\* without leading zeros), and three it rejects: no date at all, a day the
\* month does not have, a year of three digits.
GoodFileStrings ==
    { DateStr(2025, 1, 2),
      <<"2", "0", "2", "6", "-", "1", "-", "2">> }

BadFileStrings ==
    { <<"2", "0", "2", "5">>,
      DateStr(2025, 2, 30),
      <<"9", "9", "9", "-", "0", "1", "-", "0", "2">> }

\* The files given to load_holidays: every choice of date strings for the
\* two slots, with a carryover and a region that are not the defaults.
LoadFiles ==
    { JsonObject([holidays1 |-> h1,
                  holidays2 |-> h2,
                  previous_year |-> 5,
                  region |-> r,
                  last_updated |-> "then"]) :
        h1 \in SUBSET (GoodFileStrings \cup BadFileStrings),
        h2 \in SUBSET (GoodFileStrings \cup BadFileStrings),
        r \in {"bayern", "hamburg"} }

InitLoad ==
    /\ storage_file \in LoadFiles
    /\ call_args = [op |-> "load_holidays"]
    /\ call_result = NoCall
    /\ libc_pads_year \in BOOLEAN
    /\ holidays1 = {}
    /\ holidays2 = {}
    /\ taken_holidays1 = 0
    /\ taken_holidays2 = 0
    /\ previous_year_var = 0
    /\ year_var = CURRENT_YEAR
    /\ region_var = DEFAULT_REGION
    /\ initial_region = DEFAULT_REGION
    /\ year_values = <<CURRENT_YEAR>>
    /\ calendar1 = CalendarWidget(CURRENT_YEAR, {})
    /\ running = FALSE
    /\ last_event = "none"

\* storage_manager.load_holidays()
LoadCall ==
    /\ call_result.op = "none"
    /\ call_result' = [op |-> "load", value |-> load_holidays(storage_file)]
    /\ UNCHANGED <<planner_vars, call_args, storage_file, libc_pads_year>>

NextLoad == LoadCall

SpecLoad == InitLoad /\ [][NextLoad]_vars

---------------------------------------------------------------------------
(* Direct calls of the HolidayLoader: get_holidays_for_year                *)

\* Entries of a year's list of the configuration: two well-formed ones, one
\* whose date has no leading zeros (strptime reads it), one without a date,
\* one whose date is in another form, one with a trailing space, and one
\* that is no JSON object.
LoaderEntries ==
    { [date |-> DateStr(2026, 1, 1), name |-> "Neujahr"],
      [date |-> DateStr(2026, 12, 25), name |-> "Weihnachten"],
      [date |-> <<"2", "0", "2", "6", "-", "1", "-", "6">>, name |-> "kurz"],
      [name |-> "ohne Datum"],
      [date |-> <<"6", ".", "1", ".">>, name |-> "falsches Format"],
      [date |-> DateStr(2026, 1, 6) \o <<" ">>, name |-> "Leerzeichen"],
      NotARecord }

\* The longest list of entries a year of the configuration is given.
MaxEntries == 2

LoaderEntryLists ==
    UNION { [1..n -> LoaderEntries] : n \in 0..MaxEntries }

\* The years and regions asked for; the configuration has bayern and 2026.
LoaderYears == {2026, 2030}

LoaderRegions == {"bayern", "sachsen"}

LoaderConfig(entries) == [bayern |-> << <<str(2026), entries>> >>]

InitLoader ==
    /\ call_args \in [op : {"get_holidays_for_year"},
                      entries : LoaderEntryLists,
                      year : LoaderYears,
                      region : LoaderRegions]
    /\ call_result = NoCall
    /\ storage_file = Absent
    /\ libc_pads_year \in BOOLEAN
    /\ holidays1 = {}
    /\ holidays2 = {}
    /\ taken_holidays1 = 0
    /\ taken_holidays2 = 0
    /\ previous_year_var = 0
    /\ year_var = CURRENT_YEAR
    /\ region_var = DEFAULT_REGION
    /\ initial_region = DEFAULT_REGION
    /\ year_values = <<CURRENT_YEAR>>
    /\ calendar1 = CalendarWidget(CURRENT_YEAR, {})
    /\ running = FALSE
    /\ last_event = "none"

\* holiday_loader.get_holidays_for_year(year, region)
LoaderCall ==
    /\ call_result.op = "none"
    /\ LET got == get_holidays_for_year_in(LoaderConfig(call_args.entries),
                                           call_args.year, call_args.region)
       IN  call_result' = [op |-> "get_holidays_for_year",
                           raised |-> got.raised,
                           value |-> got.value]
    /\ UNCHANGED <<planner_vars, call_args, storage_file, libc_pads_year>>

NextLoader == LoaderCall

SpecLoader == InitLoader /\ [][NextLoader]_vars

---------------------------------------------------------------------------
(* Properties                                                              *)

\* The allowance at the moment of a click: total_holidays + carryover.
Allowance == total_holidays + previous_year_var

\* Blocked for the active (year, region): a Saturday or Sunday, or a public
\* holiday of the configuration for that year and region.
IsBlocked(d) ==
    weekday(d) \in {5, 6} \/ d \in PublicHolidaysOf[year_var, region_var]

\* The step is a click on the unselected working day d of the active year.
AddClick(d) ==
    d \notin holidays1 /\ d.year = year_var /\ toggle_holiday(d)

\* The step is a region change that was not cancelled.
RegionChanged == last_event' \in {"region", "region_yes", "region_no"}

\* C1: in every reachable state the counter taken_holidays1 equals the
\* number of dates in holidays1.
C1_TakenEqualsSelectionSize ==
    taken_holidays1 = Cardinality(holidays1)

C1_Witness ==
    last_event = "removed" /\ taken_holidays1 = 1 /\ previous_year_var = 1

\* C2: a click on an unselected working day of the active year while
\* taken >= total_holidays + carryover is rejected and leaves holidays1 and
\* taken_holidays1 as they were.
C2_ExhaustedAddIsRejected ==
    [][\A d \in calendar1.day_buttons :
          (AddClick(d) /\ taken_holidays1 >= Allowance)
              => /\ holidays1' = holidays1
                 /\ taken_holidays1' = taken_holidays1
                 /\ last_event' = "rejected"]_vars

C2_Witness ==
    /\ last_event = "rejected"
    /\ previous_year_var = 0
    /\ taken_holidays1 = total_holidays
    /\ storage_file = Absent

\* C3: a click on an unselected working day of the active year adds the date
\* and raises taken_holidays1 by one exactly when taken < total_holidays +
\* carryover, with the carryover of that moment; after a successful add
\* taken <= total_holidays + carryover.
C3_AddSucceedsIffBelowAllowance ==
    [][\A d \in calendar1.day_buttons :
          AddClick(d)
              => LET added == /\ holidays1' = holidays1 \cup {d}
                              /\ taken_holidays1' = taken_holidays1 + 1
                 IN  /\ added <=> (taken_holidays1 < Allowance)
                     /\ added \/ UNCHANGED <<holidays1, taken_holidays1>>
                     /\ added => taken_holidays1' <= total_holidays + previous_year_var']_vars

C3_Witness ==
    /\ last_event = "added"
    /\ previous_year_var = 1
    /\ taken_holidays1 = total_holidays + 1

\* The user can deselect d now: a click on d is possible, removes d from
\* holidays1 and lowers taken_holidays1 by one.
CanDeselect(d) ==
    ENABLED (/\ toggle_holiday(d)
             /\ holidays1' = holidays1 \ {d}
             /\ taken_holidays1' = taken_holidays1 - 1)

\* C4 as stated: every date in holidays1 can be deselected in every
\* reachable state of the running planner.
C4_EverySelectedDateCanBeDeselected ==
    running => \A d \in holidays1 : CanDeselect(d)

\* C4, amended: every date in holidays1 that belongs to the active year and
\* is neither a weekend nor a public holiday of the active (region, year)
\* can be deselected, whatever taken_holidays1 and the allowance are; this
\* removes the date and lowers taken_holidays1 by one.
C4_SelectedWorkingDayCanBeDeselected ==
    running => \A d \in holidays1 :
                  (d.year = year_var /\ ~IsBlocked(d)) => CanDeselect(d)

C4_Witness ==
    /\ last_event = "removed"
    /\ taken_holidays1 >= Allowance
    /\ taken_holidays1 >= 1

\* C5: for every date of the rendered year the button is disabled exactly
\* when the date is a Saturday or Sunday or a public holiday loaded for the
\* active (year, region); every other date has a clickable button.
C5_BlockedIffWeekendOrPublicHoliday ==
    /\ calendar1.year = year_var
    /\ \A d \in RenderedDates(year_var) :
          /\ d \in calendar1.disabled
                <=> (weekday(d) \in {5, 6} \/ d \in PublicHolidaysOf[year_var, region_var])
          /\ d \in calendar1.day_buttons <=> d \notin calendar1.disabled

C5_Witness ==
    /\ last_event = "region_no"
    /\ region_var = "berlin"
    /\ datetime(2025, 1, 1) \in calendar1.disabled
    /\ datetime(2025, 1, 2) \in calendar1.day_buttons

\* C6: a date that is Blocked for the active (region, year) has no click
\* handler, a click on a disabled button changes nothing, and every date a
\* step adds to holidays1 is, when it is added, a date of the active year
\* that is neither a weekend nor a public holiday of the active region.
C6_BlockedDateIsNeverAdded ==
    [][/\ \A d \in calendar1.day_buttons : ~IsBlocked(d)
       /\ \A d \in calendar1.disabled :
             ClickDisabled(d) => UNCHANGED <<holidays1, taken_holidays1>>
       /\ \A d \in holidays1' \ holidays1 :
             d.year = year_var /\ ~IsBlocked(d)]_vars

C6_Witness ==
    /\ last_event = "added"
    /\ region_var = "berlin"
    /\ datetime(2025, 1, 1) \in calendar1.disabled
    /\ datetime(2025, 1, 1) \notin holidays1

\* The calendar dates of a set of datetimes.
DatesOf(dts) == { DateOf(d) : d \in dts }

\* load_holidays after a successful save_holidays returns what was saved:
\* the two date sets as calendar dates (exactly, when every datetime saved
\* is at midnight), the carryover and the region.
RoundTrip ==
    /\ DatesOf(call_result.value.holidays1) = DatesOf(call_args.holidays1)
    /\ DatesOf(call_result.value.holidays2) = DatesOf(call_args.holidays2)
    /\ (\A d \in call_args.holidays1 : d.hour = 0)
          => call_result.value.holidays1 = call_args.holidays1
    /\ (\A d \in call_args.holidays2 : d.hour = 0)
          => call_result.value.holidays2 = call_args.holidays2
    /\ call_result.value.previous_year = call_args.previous_year
    /\ call_result.value.region = call_args.region

\* C7 as stated: for any two sets of calendar dates, any carryover and any
\* region, load_holidays after a successful save_holidays returns the same
\* two date sets, the same carryover and the same region.
C7_SaveLoadRoundTrip ==
    (call_result.op = "load" /\ call_result.saved) => RoundTrip

\* C7 fails where strftime writes a year below 1000 without leading zeros:
\* the save succeeds and the load returns the defaults.
C7_Witness ==
    /\ call_result.op = "load"
    /\ call_result.saved
    /\ ~libc_pads_year
    /\ call_args.holidays1 = {datetime(999, 1, 2), datetime(2025, 1, 2)}
    /\ call_args.previous_year = 5
    /\ call_result.value = LoadDefaults

\* C7 for dates that strftime writes on four digits: the round trip holds
\* when every saved year is at least 1000 or the platform pads the year.
C7_RoundTripFourDigitYears ==
    (/\ call_result.op = "load"
     /\ call_result.saved
     /\ \A d \in call_args.holidays1 \cup call_args.holidays2 :
           libc_pads_year \/ d.year >= 1000)
        => RoundTrip

C7_RoundTripFourDigitYears_Witness ==
    /\ call_result.op = "load"
    /\ call_result.saved
    /\ Cardinality(call_args.holidays1) >= 2
    /\ call_args.holidays2 = {datetime(2026, 12, 31)}
    /\ call_args.previous_year = 5
    /\ call_result.value.region = ""

\* C8: when the storage file is absent or is no JSON, load_holidays returns
\* (empty, empty, 0, None) and the planner starts with an empty selection,
\* taken = 0, carryover = 0 and DEFAULT_REGION as the active region.
C8_StartWithoutUsableFile ==
    (last_event = "start" /\ storage_file.kind \in {"absent", "garbage"})
        => /\ load_holidays(storage_file) = LoadDefaults
           /\ holidays1 = {}
           /\ holidays2 = {}
           /\ taken_holidays1 = 0
           /\ previous_year_var = 0
           /\ region_var = DEFAULT_REGION
           /\ initial_region = DEFAULT_REGION

C8_Witness ==
    /\ last_event = "start"
    /\ storage_file = Garbage
    /\ running

\* C9 as stated: a confirmed reset removes the dates of the active year from
\* holidays1 and keeps the dates of other years, with taken_holidays1 = 0; a
\* declined reset leaves holidays1 and taken_holidays1 unchanged.
C9_ResetClearsActiveYearOnly ==
    [][/\ reset_holidays(TRUE)
            => /\ holidays1' = { d \in holidays1 : d.year # year_var }
               /\ taken_holidays1' = 0
       /\ reset_holidays(FALSE)
            => UNCHANGED <<holidays1, taken_holidays1>>]_vars

\* The years get_available_years gives for each region, computed once.
AvailableYearsOf == [r \in RegionUniverse |-> Range(get_available_years(r))]

\* The least element of a non-empty set of integers.
Min(S) == CHOOSE x \in S : \A y \in S : x <= y

RegionPrompted ==
    last_event' \in {"region", "region_yes", "region_no", "region_cancel"}

\* C11: a region change leaves holidays1, holidays2, the two counters and the
\* carryover as they were, whatever the answer to the save prompt; after No
\* (and after Cancel) the storage file is as before.
C11_RegionChangeKeepsSelection ==
    [][RegionPrompted
          => /\ UNCHANGED <<holidays1, holidays2, taken_holidays1, taken_holidays2,
                            previous_year_var>>
             /\ last_event' \in {"region_no", "region_cancel"}
                   => UNCHANGED storage_file]_vars

C11_Witness ==
    /\ last_event = "region_no"
    /\ region_var = "bayern"
    /\ holidays1 = {datetime(2025, 1, 2)}
    /\ taken_holidays1 = 1
    /\ storage_file = Absent

\* The date an entry of the configuration stands for when it is well-formed:
\* a JSON object whose date field is a date that strptime reads.
WellFormedDate(entry) ==
    IF entry = [date |-> DateStr(2026, 1, 1), name |-> "Neujahr"]
    THEN {datetime(2026, 1, 1)}
    ELSE IF entry = [date |-> DateStr(2026, 12, 25), name |-> "Weihnachten"]
    THEN {datetime(2026, 12, 25)}
    ELSE IF entry = [date |-> <<"2", "0", "2", "6", "-", "1", "-", "6">>, name |-> "kurz"]
    THEN {datetime(2026, 1, 6)}
    ELSE {}

\* What get_holidays_for_year is to return: nothing for a region or year the
\* configuration does not have, else the dates of the well-formed entries.
ExpectedHolidays ==
    IF call_args.region # "bayern" \/ call_args.year # 2026 THEN {}
    ELSE UNION { WellFormedDate(call_args.entries[i]) : i \in 1..Len(call_args.entries) }

\* C12 as stated: get_holidays_for_year returns the empty set for an absent
\* region or year and otherwise the dates of the well-formed entries,
\* skipping an entry without a date, with a date in another form, or that
\* is not a record, and never raises.
C12_HolidaysForYearSkipsBadEntries ==
    call_result.op = "get_holidays_for_year"
        => /\ call_result.raised = "nothing"
           /\ call_result.value = ExpectedHolidays

\* C12 fails for an entry that is not a record: the call raises TypeError,
\* also when the list holds well-formed entries.
C12_Witness ==
    /\ call_result.op = "get_holidays_for_year"
    /\ call_args.entries = <<[date |-> DateStr(2026, 1, 1), name |-> "Neujahr"], NotARecord>>
    /\ call_args.year = 2026
    /\ call_args.region = "bayern"
    /\ call_result.raised = TypeError

\* C12 where every entry of the year asked for is a record: the call
\* returns the dates of the well-formed entries and the empty set for an
\* absent region or year.
C12_HolidaysForYearOfRecords ==
    (/\ call_result.op = "get_holidays_for_year"
     /\ \/ call_args.region # "bayern"
        \/ call_args.year # 2026
        \/ \A i \in 1..Len(call_args.entries) : IsRecord(call_args.entries[i]))
        => /\ call_result.raised = "nothing"
           /\ call_result.value = ExpectedHolidays

C12_HolidaysForYearOfRecords_Witness ==
    /\ call_result.op = "get_holidays_for_year"
    /\ call_args.entries = <<[name |-> "ohne Datum"],
                             [date |-> DateStr(2026, 12, 25), name |-> "Weihnachten"]>>
    /\ call_args.year = 2026
    /\ call_args.region = "bayern"
    /\ call_result.value = {datetime(2026, 12, 25)}

\* The step is a close or an explicit save whose write succeeds.
SuccessfulSave ==
    /\ last_event' \in {"close", "save"}
    /\ storage_file' = SavedFile(region_var, "ok")

\* What a fresh startup makes of the file the step leaves: __init__ loads
\* it, takes the counter from the size of the selection and the region from
\* the file, or the default when the file names none.  It is the state in
\* memory before the step.
StartupRestores ==
    LET loaded == load_holidays(storage_file')
    IN  /\ loaded = [holidays1 |-> holidays1,
                     holidays2 |-> holidays2,
                     previous_year |-> previous_year_var,
                     region |-> region_var]
        /\ StartRegion(region_var) = region_var
        /\ Cardinality(holidays1) = taken_holidays1
        /\ Cardinality(holidays2) = taken_holidays2

\* C13: after a close, or an explicit save, whose write succeeds, the file
\* holds the state in memory and nothing else: a fresh startup loads the
\* selection, the next-year slot, the carryover and the region that were in
\* memory, with taken the size of the loaded selection.
C13_CloseThenStartupRestores ==
    [][SuccessfulSave => StartupRestores]_vars

C13_Witness ==
    /\ last_event = "close"
    /\ ~running
    /\ storage_file = JsonObject(SavedData(holidays1, holidays2, previous_year_var, region_var))
    /\ holidays1 = {datetime(2025, 1, 2), datetime(2026, 1, 2)}
    /\ previous_year_var = 1
    /\ region_var = "bayern"

\* The step is an explicit save, a close or a region change answered Yes
\* whose write fails: the file afterwards is not the one a successful write
\* of the state in memory leaves.
FailedSave ==
    /\ last_event' \in {"save", "close", "region_yes"}
    /\ storage_file' # SavedFile(region_var', "ok")

\* C14: when the write of a save fails, save_holidays returns False, the
\* file is stale or lost, holidays1, holidays2, the counters and the
\* carryover are unchanged, and the operation completes: the save returns
\* with the region as it was, the close destroys the window, the region
\* change installs the new region, its year list and its calendar.
C14_FailedSaveIsNotFatal ==
    [][FailedSave
          => /\ \A outcome \in WriteOutcomes \ {"ok"} :
                   save_holidays(storage_file, holidays1, holidays2, previous_year_var,
                                 region_var', outcome).ret = FALSE
             /\ storage_file' \in {storage_file, Garbage}
             /\ UNCHANGED <<holidays1, holidays2, taken_holidays1, taken_holidays2,
                            previous_year_var>>
             /\ last_event' = "save" => running' /\ UNCHANGED <<region_var, year_var, calendar1>>
             /\ last_event' = "close" => ~running' /\ UNCHANGED <<region_var, year_var, calendar1>>
             /\ last_event' = "region_yes"
                   => /\ running'
                      /\ initial_region' = region_var'
                      /\ year_values' = YearListOf[region_var']
                      /\ calendar1' = CalendarOf[year_var', region_var']]_vars

C14_Witness ==
    /\ last_event = "region_yes"
    /\ region_var = "bayern"
    /\ year_var = 2026
    /\ storage_file = Garbage
    /\ holidays1 = {datetime(2025, 1, 2)}
    /\ previous_year_var = 1

\* C15 as stated: in every reachable state every date in holidays1 belongs
\* to the selected year, so taken_holidays1 counts days of that year only.
C15_SelectionIsOfActiveYear ==
    /\ \A d \in holidays1 : d.year = year_var
    /\ taken_holidays1 = Cardinality({ d \in holidays1 : d.year = year_var })

\* C15 fails after a year change: the date selected in 2025 is still in
\* holidays1 and counted when 2026 is the selected year.
C15_Witness ==
    /\ last_event = "year"
    /\ year_var = 2026
    /\ storage_file = Absent
    /\ holidays1 = {datetime(2025, 1, 2)}
    /\ taken_holidays1 = 1

\* C16: after Cancel the region is again the one in effect before the
\* change, which is the last committed region, and the selected year, the
\* year list, the selection, the counters, the carryover, the storage file
\* and the calendar are as before: nothing is rebuilt.
C16_CancelAbortsRegionChange ==
    [][last_event' = "region_cancel"
          => /\ region_var' = region_var
             /\ region_var' = initial_region
             /\ UNCHANGED <<initial_region, year_var, year_values, holidays1, holidays2,
                            taken_holidays1, taken_holidays2, previous_year_var,
                            storage_file, calendar1, running>>]_vars

C16_Witness ==
    /\ last_event = "region_cancel"
    /\ region_var = "bayern"
    /\ year_var = 2027
    /\ holidays1 # {}
    /\ calendar1 = CalendarOf[2027, "bayern"]

\* The selected dates of the active year that are Blocked for the active
\* (region, year).
BlockedSelected == { d \in holidays1 : d.year = year_var /\ IsBlocked(d) }

\* C17: a selected date that is Blocked under the active (region, year) is
\* in holidays1 and counted by taken_holidays1, its button is disabled and
\* not clickable, and a step that removes it from holidays1 is a confirmed
\* reset, never a day click; a confirmed reset removes it.
C17_BlockedSelectedDateStays ==
    [][/\ \A d \in BlockedSelected :
             /\ d \in calendar1.disabled
             /\ d \notin calendar1.day_buttons
             /\ d \notin holidays1' => last_event' = "reset"
       /\ taken_holidays1 = Cardinality(holidays1)
       /\ last_event' = "reset" => holidays1' = {}]_vars

C17_Witness ==
    /\ last_event = "region_no"
    /\ region_var = "berlin"
    /\ year_var = 2025
    /\ datetime(2025, 1, 1) \in BlockedSelected
    /\ taken_holidays1 = 1

\* C18: when the prompt of a region change is answered Yes and the write
\* succeeds (the file is rewritten and is JSON), the file holds the newly chosen region with the selection, the
\* next-year slot and the carryover as they are in memory, unchanged by the
\* step; the region in effect before the change is not written.
C18_YesSavesNewRegion ==
    [][(/\ last_event' = "region_yes"
        /\ storage_file'.kind = "json"
        /\ storage_file' # storage_file)
          => /\ storage_file'.data.region = region_var'
             /\ region_var' # region_var => storage_file'.data.region # region_var
             /\ storage_file'.data.holidays1 = FormatAll(holidays1')
             /\ storage_file'.data.holidays2 = FormatAll(holidays2')
             /\ storage_file'.data.previous_year = previous_year_var'
             /\ UNCHANGED <<holidays1, holidays2, previous_year_var>>]_vars

C18_Witness ==
    /\ last_event = "region_yes"
    /\ region_var = "hamburg"
    /\ storage_file = JsonObject(SavedData(holidays1, holidays2, previous_year_var, "hamburg"))
    /\ holidays1 = {datetime(2026, 1, 2)}
    /\ previous_year_var = 1

\* The date a date string of a storage file stands for.
ParsedFileString(string) ==
    IF string = DateStr(2025, 1, 2) THEN datetime(2025, 1, 2) ELSE datetime(2026, 1, 2)

\* C19: when a date string of either slot of the file fails to parse,
\* load_holidays returns the defaults for every field; otherwise it returns
\* every date of both slots with the file's carryover and region.  It never
\* returns part of a file.
C19_LoadIsAllOrNothing ==
    call_result.op = "load"
        => LET data == storage_file.data
           IN  IF (data.holidays1 \cup data.holidays2) \cap BadFileStrings # {}
               THEN call_result.value = LoadDefaults
               ELSE call_result.value =
                        [holidays1 |-> { ParsedFileString(d) : d \in data.holidays1 },
                         holidays2 |-> { ParsedFileString(d) : d \in data.holidays2 },
                         previous_year |-> data.previous_year,
                         region |-> data.region]

C19_Witness ==
    /\ call_result.op = "load"
    /\ storage_file.data.holidays1 = GoodFileStrings
    /\ storage_file.data.holidays2 = {DateStr(2025, 1, 2), DateStr(2025, 2, 30)}
    /\ storage_file.data.region = "bayern"
    /\ call_result.value = LoadDefaults

===========================================================================
